---- MODULE Spec2Model ----
(***************************************************************************)
(* Model of mm::ecs (src/ecs.h, src/ecs.hpp): the packed component pool    *)
(* with sparse-to-dense indirection, the reference-counted smart_ref       *)
(* handle, the ecs container and the view iterator.                        *)
(*                                                                         *)
(* The repository ships two versions of the header.  src/ecs.h tags every  *)
(* component with a generation and smart_ref checks it; src/ecs.hpp (the   *)
(* header src/test.cpp includes) has no generations.  The variable hdr     *)
(* records which header the program was built with; where the two differ   *)
(* the definitions below branch on it.                                     *)
(*                                                                         *)
(* Dense indices are 0-based as in the code; TLA+ sequences are 1-based,   *)
(* so dense slot i is element i + 1 and forward[e] is forward[e + 1].      *)
(***************************************************************************)
EXTENDS Integers, Sequences, FiniteSets, TLC

\* ------------------------------------------------------------------ bounds
\* add_entity hands out MaxEntity ids from a counter of 0: 0 .. MaxEntity - 1.
MaxEntity == 2
\* A pool accepts MaxGen inserts in all.
MaxGen == 2
\* Number of smart_ref objects the client program holds.
MaxRefs == 2
\* uint32_t counters wrap at 2^32; the model wraps them at U32Mod.
U32Mod == 8
\* Writes through a handle raise a component value up to MaxValue.
MaxValue == 3

\* Component values passed to add_component; 0 is the default-constructed C.
Values == {1, 2}
DefaultValue == 0

\* invalid_component_index (size_t max): the "no slot" mark of forward.
NONE == -1

Headers == {"h", "hpp"}
Entities == 0 .. (MaxEntity - 1)

VARIABLES
  hdr,             \* "h": built with src/ecs.h, "hpp": built with src/ecs.hpp
  Cs,              \* the component types the ecs<Cs...> was instantiated with
  _entities,       \* ecs::_entities
  _entity_counter, \* ecs::_entity_counter
  _data,           \* ecs::_data: one component_pool per type of Cs
  refs,            \* the client's smart_ref objects
  ret,             \* the last call: operation, arguments, result
  ub,              \* an out-of-bounds access has changed the program state
  it               \* the last traversal of a view

vars == <<hdr, Cs, _entities, _entity_counter, _data, refs, ret, ub, it>>

\* ------------------------------------------------------------ component_pool
\* ids and inserts are not fields of the code: ids[i] numbers the component
\* instance in dense slot i by the order of insertion and moves with it,
\* inserts counts the insertions.  No operation reads them; the properties
\* use them to tell one component instance from another.
EmptyPool ==
  [data |-> <<>>, back |-> <<>>, forward |-> <<>>,
   generations |-> <<>>, refcounts |-> <<>>, current_generation |-> 0,
   ids |-> <<>>, inserts |-> 0]

Range(s) == {s[i] : i \in 1 .. Len(s)}

\* The dense slots of a pool.
DenseIdx(p) == 0 .. (Len(p.back) - 1)

\* The values a read of forward[e] can produce.  Inside the vector it is the
\* stored element.  Past its end the read is out of bounds: it yields the
\* no-slot mark or any other word; of the other words the model follows those
\* that are a slot of the pool.
ReadForward(p, e) ==
  IF e < Len(p.forward) THEN {p.forward[e + 1]} ELSE {NONE} \cup DenseIdx(p)

\* forward.resize(e + 1, invalid_component_index) when e >= forward.size()
Resize(fwd, e) ==
  IF e >= Len(fwd) THEN fwd \o [i \in 1 .. (e + 1 - Len(fwd)) |-> NONE] ELSE fwd

Inc32(x) == (x + 1) % U32Mod
Dec32(x) == (x + U32Mod - 1) % U32Mod

\* An append that forgets refcounts.push_back(0): the refcount array falls
\* one short of the other dense arrays.
PushBack_short(p, e, v) ==
  LET q == [p EXCEPT !.forward = [Resize(p.forward, e) EXCEPT ![e + 1] = Len(p.back)],
                     !.back = Append(@, e),
                     !.data = Append(@, v),
                     !.ids = Append(@, p.inserts),
                     !.inserts = @ + 1]
  IN IF hdr = "h"
       THEN [q EXCEPT !.generations = Append(@, p.current_generation),
                      !.current_generation = Inc32(@)]
       ELSE q

\* The tail of add_element and add_element_fast: append to the dense arrays.
PushBack(p, e, v) ==
  LET q == [p EXCEPT !.forward = [Resize(p.forward, e) EXCEPT ![e + 1] = Len(p.back)],
                     !.back = Append(@, e),
                     !.data = Append(@, v),
                     !.refcounts = Append(@, 0),
                     !.ids = Append(@, p.inserts),
                     !.inserts = @ + 1]
  IN IF hdr = "h"
       THEN [q EXCEPT !.generations = Append(@, p.current_generation),
                      !.current_generation = Inc32(@)]
       ELSE q

\* An add_element that appends without looking at forward[e].
add_element_blind(p, e, v) == [pool |-> PushBack(p, e, v), res |-> "ok"]

\* component_pool::add_element: [pool, res]
add_element(p, e, v) ==
  IF e < Len(p.forward) /\ p.forward[e + 1] # NONE
    THEN [pool |-> p, res |-> "component_already_exists"]
    ELSE [pool |-> PushBack(p, e, v), res |-> "ok"]

\* An unchecked add that drops its constructor arguments.
add_element_fast_default(p, e, v) == PushBack(p, e, DefaultValue)

\* component_pool::add_element_fast
add_element_fast(p, e, v) == PushBack(p, e, v)

\* A swap-and-pop that moves data, back and generations of the last slot into
\* the hole but leaves its refcount behind.
remove_element_fast_keep_refcount(p, e, idx) ==
  LET last == Len(p.data) - 1
      pop(s) == SubSeq(s, 1, Len(s) - 1)
      mv(s) == IF idx # last THEN [s EXCEPT ![idx + 1] = s[last + 1]] ELSE s
      moved == p.back[last + 1]
      fwd1 == IF idx # last THEN [p.forward EXCEPT ![moved + 1] = idx]
                            ELSE p.forward
      fwd2 == IF e < Len(fwd1) THEN [fwd1 EXCEPT ![e + 1] = NONE] ELSE fwd1
  IN [p EXCEPT !.data = pop(mv(@)), !.back = pop(mv(@)),
               !.refcounts = pop(@),
               !.ids = pop(mv(@)),
               !.generations = IF hdr = "h" THEN pop(mv(@)) ELSE @,
               !.forward = fwd2]

\* A swap-and-pop that forgets forward[back[idx]] = idx: the moved owner
\* still points at the popped slot.
remove_element_fast_no_fix(p, e, idx) ==
  LET last == Len(p.data) - 1
      pop(s) == SubSeq(s, 1, Len(s) - 1)
      mv(s) == IF idx # last THEN [s EXCEPT ![idx + 1] = s[last + 1]] ELSE s
      fwd2 == IF e < Len(p.forward) THEN [p.forward EXCEPT ![e + 1] = NONE]
                                    ELSE p.forward
  IN [p EXCEPT !.data = pop(mv(@)), !.back = pop(mv(@)),
               !.refcounts = pop(mv(@)),
               !.ids = pop(mv(@)),
               !.generations = IF hdr = "h" THEN pop(mv(@)) ELSE @,
               !.forward = fwd2]

\* component_pool::remove_element_fast, idx being the value read at forward[e].
\* The store forward[e] = invalid_component_index lands outside the vector
\* when e >= forward.size() and leaves the vector as it is.
remove_element_fast(p, e, idx) ==
  LET last == Len(p.data) - 1
      pop(s) == SubSeq(s, 1, Len(s) - 1)
      mv(s) == IF idx # last THEN [s EXCEPT ![idx + 1] = s[last + 1]] ELSE s
      moved == p.back[last + 1]
      fwd1 == IF idx # last THEN [p.forward EXCEPT ![moved + 1] = idx]
                            ELSE p.forward
      fwd2 == IF e < Len(fwd1) THEN [fwd1 EXCEPT ![e + 1] = NONE] ELSE fwd1
  IN [p EXCEPT !.data = pop(mv(@)), !.back = pop(mv(@)),
               !.refcounts = pop(mv(@)),
               !.ids = pop(mv(@)),
               !.generations = IF hdr = "h" THEN pop(mv(@)) ELSE @,
               !.forward = fwd2]

\* component_pool::remove_element, idx being the value read at forward[e]
remove_element(p, e, idx) ==
  IF Len(p.forward) = 0 \/ Len(p.back) = 0
    THEN [pool |-> p, res |-> "component_does_not_exist"]
  ELSE IF idx = NONE
    THEN [pool |-> p, res |-> "component_does_not_exist"]
  ELSE IF p.refcounts[idx + 1] # 0
    THEN [pool |-> p, res |-> "component_has_references"]
  ELSE [pool |-> remove_element_fast(p, e, idx), res |-> "ok"]

\* component_pool::get_element: [res, val]
get_element(p, e, idx) ==
  IF Len(p.forward) = 0 \/ Len(p.back) = 0
    THEN [res |-> "component_does_not_exist", val |-> 0]
  ELSE IF idx = NONE
    THEN [res |-> "component_does_not_exist", val |-> 0]
  ELSE [res |-> "ok", val |-> p.data[idx + 1]]

\* component_pool::has_component, idx being the value read at forward[e]
has_component(p, e, idx) ==
  IF Len(p.forward) = 0 \/ Len(p.back) = 0 THEN FALSE ELSE idx # NONE

\* has_component(e) for an entity inside forward: no out-of-bounds read.
Has(p, e) == e < Len(p.forward) /\ has_component(p, e, p.forward[e + 1])

\* ---------------------------------------------------------------- smart_ref
\* id is not a field of the code: it is the ids entry of the component
\* instance the object was constructed on (NoId: none).
NoId == 0 - 1
\* No object in the slot (never constructed, or destroyed).
NoRef == [alive |-> FALSE, pool |-> "null", e |-> 0, generation |-> 0, id |-> NoId]
\* A moved-from object: pool = nullptr, e = {}, generation = 0.
MovedFrom == [alive |-> TRUE, pool |-> "null", e |-> 0, generation |-> 0, id |-> NoId]

\* ++pool->refcounts[idx] / --pool->refcounts[idx]
IncRef(ps, c, idx) ==
  [ps EXCEPT ![c].refcounts[idx + 1] = Inc32(@)]
DecRef(ps, c, idx) ==
  [ps EXCEPT ![c].refcounts[idx + 1] = Dec32(@)]

\* smart_ref::valid
valid(ps, r) ==
  /\ r.pool # "null"
  /\ Has(ps[r.pool], r.e)
  /\ hdr = "h" => ps[r.pool].generations[ps[r.pool].forward[r.e + 1] + 1] = r.generation

\* smart_ref::~smart_ref: the pools after the destructor of r has run
Release(ps, r) ==
  IF r.pool # "null" /\ Has(ps[r.pool], r.e)
    THEN LET idx == ps[r.pool].forward[r.e + 1]
         IN IF hdr = "hpp" \/ r.generation = ps[r.pool].generations[idx + 1]
              THEN DecRef(ps, r.pool, idx)
              ELSE ps
    ELSE ps

\* The increment of the copy constructor and of copy assignment:
\* if (pool && pool->has_component(e)) ++pool->refcounts[pool->forward[e]];
Acquire(ps, r) ==
  IF r.pool # "null" /\ Has(ps[r.pool], r.e)
    THEN IncRef(ps, r.pool, ps[r.pool].forward[r.e + 1])
    ELSE ps

\* smart_ref::smart_ref(pool, ent): the new object, idx being forward[ent]
NewRef(ps, c, e, idx) ==
  [alive |-> TRUE, pool |-> c, e |-> e,
   generation |-> IF hdr = "h" THEN ps[c].generations[idx + 1] ELSE 0,
   id |-> ps[c].ids[idx + 1]]

\* The client constructs a new smart_ref in its first free slot.
FreeSlot(r) == ~refs[r].alive /\ \A q \in DOMAIN refs : q < r => refs[q].alive

\* ---------------------------------------------------------------------- ecs

\* std::find(_entities.cbegin(), _entities.cend(), e) != _entities.cend()
Found(ents, e) == e \in Range(ents)

\* _entities.erase(std::find(...)): the first occurrence of e is erased
Erase(ents, e) ==
  LET i == CHOOSE k \in 1 .. Len(ents) :
             ents[k] = e /\ \A j \in 1 .. (k - 1) : ents[j] # e
  IN SubSeq(ents, 1, i - 1) \o SubSeq(ents, i + 1, Len(ents))

\* What the last call was and what it returned.
Ret(op, c, e, res, val) == [op |-> op, res |-> res, val |-> val]

NoView == [types |-> <<>>, out |-> <<>>, incs |-> 0, index |-> 0, stray |-> FALSE]

InitWith(types, nrefs) ==
  /\ Cs = types
  /\ _entities = <<>>
  /\ _entity_counter = 0
  /\ _data = [c \in Range(types) |-> EmptyPool]
  /\ refs = [r \in 1 .. nrefs |-> NoRef]
  /\ ret = Ret("init", "null", 0, "void", 0)
  /\ ub = FALSE
  /\ it = NoView

\* ecs<A> built with either header
Init == hdr \in Headers /\ InitWith(<<"A">>, MaxRefs)

\* ecs::add_entity: _entities.push_back(_entity_counter); return
\* _entity_counter++; on a uint32_t counter.  The model follows the counter
\* from 0 up to MaxEntity and, when it starts there, from MaxEntity below the
\* wrap across it.
add_entity ==
  /\ ~ub
  /\ _entity_counter < MaxEntity \/ _entity_counter >= U32Mod - MaxEntity
  /\ _entities' = Append(_entities, _entity_counter)
  /\ _entity_counter' = Inc32(_entity_counter)
  /\ ret' = Ret("add_entity", "null", _entity_counter, "ok", _entity_counter)
  /\ UNCHANGED <<hdr, Cs, _data, refs, ub>>
  /\ it' = NoView

\* ecs::add_component<C, safety_policy::checked>(e, v)
add_component_checked(c, e, v) ==
  /\ ~ub
  /\ IF ~Found(_entities, e)
       THEN /\ ret' = Ret("add_component_checked", c, e, "no_such_entity", 0)
            /\ UNCHANGED _data
       ELSE /\ _data[c].inserts < MaxGen
            /\ LET r == add_element(_data[c], e, v)
               IN /\ _data' = [_data EXCEPT ![c] = r.pool]
                  /\ ret' = Ret("add_component_checked", c, e, r.res, 0)
  /\ UNCHANGED <<hdr, Cs, _entities, _entity_counter, refs, ub>>
  /\ it' = NoView

\* ecs::add_component<C, safety_policy::unchecked>(e, v), called as its
\* contract asks: e holds no C component.  The entity need not be live.
add_component_unchecked(c, e, v) ==
  /\ ~ub
  /\ ~Has(_data[c], e)
  /\ _data[c].inserts < MaxGen
  /\ _data' = [_data EXCEPT ![c] = add_element_fast(_data[c], e, v)]
  /\ ret' = Ret("add_component_unchecked", c, e, "void", 0)
  /\ UNCHANGED <<hdr, Cs, _entities, _entity_counter, refs, ub>>
  /\ it' = NoView

\* ecs::remove_component<C, safety_policy::checked>(e)
remove_component_checked(c, e) ==
  /\ ~ub
  /\ IF ~Found(_entities, e)
       THEN /\ ret' = Ret("remove_component_checked", c, e, "no_such_entity", 0)
            /\ UNCHANGED <<_data, ub>>
       ELSE \E idx \in ReadForward(_data[c], e) :
              LET r == remove_element(_data[c], e, idx)
              IN /\ _data' = [_data EXCEPT ![c] = r.pool]
                 /\ ret' = Ret("remove_component_checked", c, e, r.res, 0)
                 /\ ub' = (r.res = "ok" /\ e >= Len(_data[c].forward))
  /\ UNCHANGED <<hdr, Cs, _entities, _entity_counter, refs>>
  /\ it' = NoView

\* ecs::remove_component<C, safety_policy::unchecked>(e) on an entity that
\* holds a C component.  The assert on the refcount is compiled out under
\* NDEBUG and the removal goes ahead whether or not handles are outstanding;
\* a build with asserts aborts there instead, which ends the run.
remove_component_unchecked(c, e) ==
  /\ ~ub
  /\ Has(_data[c], e)
  /\ _data' = [_data EXCEPT ![c] =
                 remove_element_fast(_data[c], e, _data[c].forward[e + 1])]
  /\ ret' = Ret("remove_component_unchecked", c, e, "void", 0)
  /\ UNCHANGED <<hdr, Cs, _entities, _entity_counter, refs, ub>>
  /\ it' = NoView

\* ecs::get_component<C, reference_style::raw, safety_policy::checked>(e)
get_component_checked(c, e) ==
  /\ ~ub
  /\ IF ~Found(_entities, e)
       THEN ret' = Ret("get_component_checked", c, e, "no_such_entity", 0)
       ELSE \E idx \in ReadForward(_data[c], e) :
              LET r == get_element(_data[c], e, idx)
              IN ret' = Ret("get_component_checked", c, e, r.res, r.val)
  /\ UNCHANGED <<hdr, Cs, _entities, _entity_counter, _data, refs, ub>>
  /\ it' = NoView

\* ecs::get_component<C, reference_style::raw, safety_policy::unchecked>(e)
\* on an entity that holds a C component (src/ecs.hpp; in src/ecs.h the
\* unchecked get is declared void).
get_component_unchecked(c, e) ==
  /\ ~ub
  /\ Has(_data[c], e)
  /\ ret' = Ret("get_component_unchecked", c, e, "ok",
                _data[c].data[_data[c].forward[e + 1] + 1])
  /\ UNCHANGED <<hdr, Cs, _entities, _entity_counter, _data, refs, ub>>
  /\ it' = NoView

\* ecs::has_component<C>(e)
ecs_has_component(c, e) ==
  /\ ~ub
  /\ \E idx \in ReadForward(_data[c], e) :
       ret' = Ret("has_component", c, e, "ok",
                  IF has_component(_data[c], e, idx) THEN 1 ELSE 0)
  /\ UNCHANGED <<hdr, Cs, _entities, _entity_counter, _data, refs, ub>>
  /\ it' = NoView

\* ecs::get_component<C, reference_style::stable, safety_policy::checked>(e),
\* the returned smart_ref stored in the client's slot r
get_stable_checked(r, c, e) ==
  /\ ~ub
  /\ FreeSlot(r)
  /\ IF ~Found(_entities, e)
       THEN /\ ret' = Ret("get_stable_checked", c, e, "no_such_entity", 0)
            /\ UNCHANGED <<_data, refs, ub>>
       ELSE \E idx \in ReadForward(_data[c], e) :
              IF ~has_component(_data[c], e, idx)
                THEN /\ ret' = Ret("get_stable_checked", c, e,
                                   "component_does_not_exist", 0)
                     /\ UNCHANGED <<_data, refs, ub>>
                ELSE /\ _data[c].refcounts[idx + 1] < MaxRefs
                     /\ refs' = [refs EXCEPT ![r] = NewRef(_data, c, e, idx)]
                     /\ _data' = IncRef(_data, c, idx)
                     /\ ret' = Ret("get_stable_checked", c, e, "ok", 0)
                     /\ ub' = (e >= Len(_data[c].forward))
  /\ UNCHANGED <<hdr, Cs, _entities, _entity_counter>>
  /\ it' = NoView

\* smart_ref<C>{&pool, e}: the constructor called directly (src/test.cpp) or
\* by the unchecked stable get, on an entity that holds a C component
smart_ref_new(r, c, e) ==
  /\ ~ub
  /\ FreeSlot(r)
  /\ Has(_data[c], e)
  /\ LET idx == _data[c].forward[e + 1]
     IN /\ _data[c].refcounts[idx + 1] < MaxRefs
        /\ refs' = [refs EXCEPT ![r] = NewRef(_data, c, e, idx)]
        /\ _data' = IncRef(_data, c, idx)
  /\ ret' = Ret("smart_ref_new", c, e, "void", 0)
  /\ UNCHANGED <<hdr, Cs, _entities, _entity_counter, ub>>
  /\ it' = NoView

\* smart_ref::smart_ref(const smart_ref &other): slot d copy-constructed from s
smart_ref_copy(d, s) ==
  /\ ~ub
  /\ refs[s].alive /\ FreeSlot(d)
  /\ refs[s].pool # "null" /\ Has(_data[refs[s].pool], refs[s].e) =>
       _data[refs[s].pool].refcounts[_data[refs[s].pool].forward[refs[s].e + 1] + 1]
         # MaxRefs
  /\ refs' = [refs EXCEPT ![d] = refs[s]]
  /\ _data' = Acquire(_data, refs[s])
  /\ ret' = Ret("smart_ref_copy", refs[s].pool, refs[s].e, "void", 0)
  /\ UNCHANGED <<hdr, Cs, _entities, _entity_counter, ub>>
  /\ it' = NoView

\* A move constructor that counts the destination as one more reference.
smart_ref_move_counting(d, s) ==
  /\ ~ub
  /\ refs[s].alive /\ FreeSlot(d)
  /\ refs' = [refs EXCEPT ![d] = refs[s], ![s] = MovedFrom]
  /\ _data' = Acquire(_data, refs[s])
  /\ ret' = Ret("smart_ref_move", refs[s].pool, refs[s].e, "void", 0)
  /\ UNCHANGED <<hdr, Cs, _entities, _entity_counter, ub>>
  /\ it' = NoView

\* smart_ref::smart_ref(smart_ref &&other): slot d move-constructed from s
smart_ref_move(d, s) ==
  /\ ~ub
  /\ refs[s].alive /\ FreeSlot(d)
  /\ refs' = [refs EXCEPT ![d] = refs[s], ![s] = MovedFrom]
  /\ ret' = Ret("smart_ref_move", refs[s].pool, refs[s].e, "void", 0)
  /\ UNCHANGED <<hdr, Cs, _entities, _entity_counter, _data, ub>>
  /\ it' = NoView

\* smart_ref::operator=(const smart_ref &other): d = s
smart_ref_copy_assign(d, s) ==
  /\ ~ub
  /\ refs[s].alive /\ refs[d].alive
  /\ IF d = s
       THEN UNCHANGED <<refs, _data>>
       ELSE LET released == Release(_data, refs[d])
            IN /\ refs[s].pool # "null" /\ Has(released[refs[s].pool], refs[s].e) =>
                    released[refs[s].pool].refcounts[
                      released[refs[s].pool].forward[refs[s].e + 1] + 1] # MaxRefs
               /\ refs' = [refs EXCEPT ![d] = refs[s]]
               /\ _data' = Acquire(released, refs[s])
  /\ ret' = Ret("smart_ref_copy_assign", refs[s].pool, refs[s].e, "void", 0)
  /\ UNCHANGED <<hdr, Cs, _entities, _entity_counter, ub>>
  /\ it' = NoView

\* smart_ref::operator=(smart_ref &&other): d = std::move(s)
smart_ref_move_assign(d, s) ==
  /\ ~ub
  /\ refs[s].alive /\ refs[d].alive
  /\ IF d = s
       THEN UNCHANGED <<refs, _data>>
       ELSE /\ refs' = [refs EXCEPT ![d] = refs[s], ![s] = MovedFrom]
            /\ _data' = Release(_data, refs[d])
  /\ ret' = Ret("smart_ref_move_assign", refs[s].pool, refs[s].e, "void", 0)
  /\ UNCHANGED <<hdr, Cs, _entities, _entity_counter, ub>>
  /\ it' = NoView

\* smart_ref::~smart_ref: the object in slot r goes out of scope
smart_ref_drop(r) ==
  /\ ~ub
  /\ refs[r].alive
  /\ _data' = Release(_data, refs[r])
  /\ refs' = [refs EXCEPT ![r] = NoRef]
  /\ ret' = Ret("smart_ref_drop", refs[r].pool, refs[r].e, "void", 0)
  /\ UNCHANGED <<hdr, Cs, _entities, _entity_counter, ub>>
  /\ it' = NoView

\* A write through a handle that lands in a copy of the component: the pool
\* keeps the old value.
smart_ref_write_copy(r, d) ==
  /\ ~ub
  /\ refs[r].alive /\ valid(_data, refs[r])
  /\ _data[refs[r].pool].data[_data[refs[r].pool].forward[refs[r].e + 1] + 1] + d
       <= MaxValue
  /\ ret' = Ret("smart_ref_write", refs[r].pool, refs[r].e, "void", 0)
  /\ UNCHANGED <<hdr, Cs, _entities, _entity_counter, _data, refs, ub>>
  /\ it' = NoView

\* r.get() += d (operator-> and operator* go through get): get asserts
\* valid() and returns pool->get_element_fast(e), a reference into data.
smart_ref_write(r, d) ==
  /\ ~ub
  /\ refs[r].alive /\ valid(_data, refs[r])
  /\ LET c == refs[r].pool
         i == _data[c].forward[refs[r].e + 1] + 1
     IN /\ _data[c].data[i] + d <= MaxValue
        /\ _data' = [_data EXCEPT ![c].data[i] = @ + d]
  /\ ret' = Ret("smart_ref_write", refs[r].pool, refs[r].e, "void", 0)
  /\ UNCHANGED <<hdr, Cs, _entities, _entity_counter, refs, ub>>
  /\ it' = NoView

\* A read of r.get() for a valid handle r
smart_ref_read(r) ==
  /\ ~ub
  /\ refs[r].alive /\ valid(_data, refs[r])
  /\ ret' = Ret("smart_ref_read", refs[r].pool, refs[r].e, "ok",
                _data[refs[r].pool].data[_data[refs[r].pool].forward[refs[r].e + 1] + 1])
  /\ UNCHANGED <<hdr, Cs, _entities, _entity_counter, _data, refs, ub>>
  /\ it' = NoView

\* The type lists a call can name: the orderings of one or two types of Cs.
TypeLists ==
  {<<c>> : c \in Range(Cs)} \cup
  {<<c, d>> : <<c, d>> \in {x \in Range(Cs) \X Range(Cs) : x[1] # x[2]}}

\* ecs::remove_components<rem_policy, checked, Ccs...>(e), the fold
\* (try_remove(pool<Ccs>), ...) from position i of ts on, res being ok so far:
\* the set of outcomes [data, res, ub].  has_component and remove_element read
\* the same forward[e].
RECURSIVE remove_fold(_, _, _, _, _)
remove_fold(ps, e, ts, i, rem_policy) ==
  IF i > Len(ts)
    THEN {[data |-> ps, res |-> "ok", ub |-> FALSE]}
    ELSE LET c == ts[i]
             p == ps[c]
         IN UNION {
              IF has_component(p, e, idx)
                THEN LET r == remove_element(p, e, idx)
                     IN IF r.res = "ok"
                          THEN {[o EXCEPT !.ub = @ \/ e >= Len(p.forward)] :
                                  o \in remove_fold([ps EXCEPT ![c] = r.pool],
                                                    e, ts, i + 1, rem_policy)}
                          ELSE {[data |-> ps, res |-> r.res, ub |-> FALSE]}
                ELSE IF rem_policy = "lax"
                       THEN remove_fold(ps, e, ts, i + 1, rem_policy)
                       ELSE {[data |-> ps, res |-> "component_does_not_exist",
                              ub |-> FALSE]}
              : idx \in ReadForward(p, e)}

\* A bulk removal that skips the lookup of e in the entity list.
remove_components_unguarded(ents, ps, e, ts, rem_policy) ==
  remove_fold(ps, e, ts, 1, rem_policy)

\* ecs::remove_components<rem_policy, safety_policy::checked, Ccs...>(e)
\* against the entity list ents
remove_components(ents, ps, e, ts, rem_policy) ==
  IF ~Found(ents, e)
    THEN {[data |-> ps, res |-> "no_such_entity", ub |-> FALSE]}
    ELSE remove_fold(ps, e, ts, 1, rem_policy)

\* ecs::remove_components<rem_policy, safety_policy::checked, Ccs...>(e)
remove_components_checked(e, ts, rem_policy) ==
  /\ ~ub
  /\ \E o \in remove_components(_entities, _data, e, ts, rem_policy) :
       /\ _data' = o.data
       /\ ub' = o.ub
       /\ ret' = Ret("remove_components_checked", "null", e, o.res, 0)
  /\ UNCHANGED <<hdr, Cs, _entities, _entity_counter, refs>>
  /\ it' = NoView

\* ecs::remove_entity<safety_policy::checked>(e): e is erased from _entities
\* first, and remove_components<lax, checked, Cs...>(e) then looks e up in
\* the list it was just erased from.
remove_entity_checked(e) ==
  /\ ~ub
  /\ IF Found(_entities, e)
       THEN /\ _entities' = Erase(_entities, e)
            /\ \E o \in remove_components(Erase(_entities, e), _data, e, Cs, "lax") :
                 /\ _data' = o.data
                 /\ ub' = o.ub
                 /\ ret' = Ret("remove_entity_checked", "null", e, o.res, 0)
       ELSE /\ ret' = Ret("remove_entity_checked", "null", e, "no_such_entity", 0)
            /\ UNCHANGED <<_entities, _data, ub>>
  /\ UNCHANGED <<hdr, Cs, _entity_counter, refs>>
  /\ it' = NoView

\* ----------------------------------------------------------------- ecs_view
\* The scan with <= in place of <: the last of the smallest pools wins.
RECURSIVE smallest_scan_last(_, _, _, _)
smallest_scan_last(sizes, i, min_index, min_size) ==
  IF i > Len(sizes) THEN min_index
  ELSE IF sizes[i] <= min_size
    THEN smallest_scan_last(sizes, i + 1, i, sizes[i])
    ELSE smallest_scan_last(sizes, i + 1, min_index, min_size)

\* ecs_view::_smallest_pool_impl, the scan for (i = 1; i < N; ++i) over the
\* sizes of the pools (1-based here)
RECURSIVE smallest_scan(_, _, _, _)
smallest_scan(sizes, i, min_index, min_size) ==
  IF i > Len(sizes) THEN min_index
  ELSE IF sizes[i] < min_size
    THEN smallest_scan(sizes, i + 1, i, sizes[i])
    ELSE smallest_scan(sizes, i + 1, min_index, min_size)

\* A view that always drives the traversal from its first pool.
_smallest_pool_first(ps, ts) == ts[1]

\* ecs_view::_smallest_pool: the type whose pool drives the traversal
_smallest_pool(ps, ts) ==
  LET sizes == [i \in 1 .. Len(ts) |-> Len(ps[ts[i]].back)]
  IN ts[smallest_scan(sizes, 2, 1, sizes[1])]

\* iterator::_has_all(e): the values (... && pool.has_component(e)) can take.
\* A pool whose forward does not reach e answers from an out-of-bounds read.
_has_all(ps, ts, e) ==
  LET answers(c) == {has_component(ps[c], e, idx) : idx \in ReadForward(ps[c], e)}
  IN IF \E i \in 1 .. Len(ts) : answers(ts[i]) = {FALSE} THEN {FALSE}
     ELSE IF \A i \in 1 .. Len(ts) : answers(ts[i]) = {TRUE} THEN {TRUE}
     ELSE BOOLEAN

\* iterator::_skip_non_matching from _index = index: where the loop can stop
RECURSIVE _skip_non_matching(_, _, _)
_skip_non_matching(ps, ts, index) ==
  LET smallest == ps[_smallest_pool(ps, ts)]
  IN IF index < Len(smallest.back)
       THEN UNION {IF b THEN {index} ELSE _skip_non_matching(ps, ts, index + 1) :
                     b \in _has_all(ps, ts, smallest.back[index + 1])}
       ELSE {index}

\* for (auto it = begin(); it != end(); ++it) { *it; } with the iterator at
\* index: the set of finished traversals.  out collects the entities the
\* dereferences yield, incs counts operator++, stray records a dereference
\* of an entity that some pool of the view does not hold (get_element_fast
\* is then called on a pool without the component).
RECURSIVE view_loop(_, _, _, _, _, _)
view_loop(ps, ts, index, out, incs, stray) ==
  LET smallest == ps[_smallest_pool(ps, ts)]
  IN IF index # Len(smallest.back)
       THEN LET e == smallest.back[index + 1]
                miss == \E i \in 1 .. Len(ts) : ~Has(ps[ts[i]], e)
            IN UNION {view_loop(ps, ts, nxt, Append(out, e), incs + 1, stray \/ miss) :
                        nxt \in _skip_non_matching(ps, ts, index + 1)}
       ELSE {[types |-> ts, out |-> out, incs |-> incs, index |-> index,
              stray |-> stray]}

\* A traversal of ecs_view<Ccs...>(ecs) from begin() to end(), ts being Ccs;
\* nothing is mutated while it runs.  begin() is iterator(*this, 0).
view_traverse(ts) ==
  /\ ~ub
  /\ it' \in view_loop(_data, ts, 0, <<>>, 0, FALSE)
  /\ ret' = Ret("view_traverse", "null", 0, "void", 0)
  /\ UNCHANGED <<hdr, Cs, _entities, _entity_counter, _data, refs, ub>>

Next ==
  \/ add_entity
  \/ \E c \in Range(Cs), e \in Entities, v \in Values : add_component_checked(c, e, v)
  \/ \E c \in Range(Cs), e \in Entities, v \in Values : add_component_unchecked(c, e, v)
  \/ \E c \in Range(Cs), e \in Entities : remove_component_checked(c, e)
  \/ \E c \in Range(Cs), e \in Entities : remove_component_unchecked(c, e)
  \/ \E c \in Range(Cs), e \in Entities : get_component_checked(c, e)
  \/ \E c \in Range(Cs), e \in Entities : get_component_unchecked(c, e)
  \/ \E c \in Range(Cs), e \in Entities : ecs_has_component(c, e)
  \/ \E r \in DOMAIN refs, c \in Range(Cs), e \in Entities : get_stable_checked(r, c, e)
  \/ \E r \in DOMAIN refs, c \in Range(Cs), e \in Entities : smart_ref_new(r, c, e)
  \/ \E d \in DOMAIN refs, s \in DOMAIN refs : smart_ref_copy(d, s)
  \/ \E d \in DOMAIN refs, s \in DOMAIN refs : smart_ref_move(d, s)
  \/ \E d \in DOMAIN refs, s \in DOMAIN refs : smart_ref_copy_assign(d, s)
  \/ \E d \in DOMAIN refs, s \in DOMAIN refs : smart_ref_move_assign(d, s)
  \/ \E r \in DOMAIN refs : smart_ref_drop(r)
  \/ \E e \in Entities, ts \in TypeLists, pol \in {"strict", "lax"} :
       remove_components_checked(e, ts, pol)
  \/ \E e \in Entities : remove_entity_checked(e)

Spec == Init /\ [][Next]_vars

\* ecs<A, B> built with src/ecs.h, the client holding no smart_ref; components
\* are default-constructed.
InitView == hdr = "h" /\ InitWith(<<"A", "B">>, 0)
NextView ==
  \/ add_entity
  \/ \E c \in Range(Cs), e \in Entities : add_component_checked(c, e, DefaultValue)
  \/ \E c \in Range(Cs), e \in Entities : add_component_unchecked(c, e, DefaultValue)
  \/ \E c \in Range(Cs), e \in Entities : remove_component_checked(c, e)
  \/ \E c \in Range(Cs), e \in Entities : remove_component_unchecked(c, e)
  \/ \E c \in Range(Cs), e \in Entities : get_component_checked(c, e)
  \/ \E e \in Entities, ts \in TypeLists, pol \in {"strict", "lax"} :
       remove_components_checked(e, ts, pol)
  \/ \E e \in Entities : remove_entity_checked(e)
  \/ \E ts \in TypeLists : view_traverse(ts)
SpecView == InitView /\ [][NextView]_vars

\* ecs<A> built with either header, the client holding no smart_ref.
InitPlain == hdr \in Headers /\ InitWith(<<"A">>, 0)
NextPlain ==
  \/ add_entity
  \/ \E c \in Range(Cs), e \in Entities : add_component_checked(c, e, e + 1)
  \/ \E c \in Range(Cs), e \in Entities : add_component_unchecked(c, e, e + 1)
  \/ \E c \in Range(Cs), e \in Entities : remove_component_checked(c, e)
  \/ \E c \in Range(Cs), e \in Entities : remove_component_unchecked(c, e)
  \/ \E c \in Range(Cs), e \in Entities : get_component_checked(c, e)
  \/ \E e \in Entities, ts \in TypeLists, pol \in {"strict", "lax"} :
       remove_components_checked(e, ts, pol)
  \/ \E e \in Entities : remove_entity_checked(e)
SpecPlain == InitPlain /\ [][NextPlain]_vars

StableRefs == 1
InitStable == hdr \in Headers /\ InitWith(<<"A">>, StableRefs)
NextStable ==
  \/ add_entity
  \/ \E c \in Range(Cs), e \in Entities : add_component_checked(c, e, e + 1)
  \/ \E c \in Range(Cs), e \in Entities : add_component_unchecked(c, e, e + 1)
  \/ \E c \in Range(Cs), e \in Entities : remove_component_checked(c, e)
  \/ \E c \in Range(Cs), e \in Entities : remove_component_unchecked(c, e)
  \/ \E r \in DOMAIN refs, c \in Range(Cs), e \in Entities : get_stable_checked(r, c, e)
  \/ \E r \in DOMAIN refs, c \in Range(Cs), e \in Entities : smart_ref_new(r, c, e)
  \/ \E r \in DOMAIN refs : smart_ref_drop(r)
SpecStable == InitStable /\ [][NextStable]_vars

\* ecs<A> built with either header, the client calling only the checked
\* container operations and the smart_ref operations.
NextChecked ==
  \/ add_entity
  \/ \E c \in Range(Cs), e \in Entities, v \in Values : add_component_checked(c, e, v)
  \/ \E c \in Range(Cs), e \in Entities : remove_component_checked(c, e)
  \/ \E c \in Range(Cs), e \in Entities : get_component_checked(c, e)
  \/ \E r \in DOMAIN refs, c \in Range(Cs), e \in Entities : get_stable_checked(r, c, e)
  \/ \E r \in DOMAIN refs, c \in Range(Cs), e \in Entities : smart_ref_new(r, c, e)
  \/ \E d \in DOMAIN refs, s \in DOMAIN refs : smart_ref_copy(d, s)
  \/ \E d \in DOMAIN refs, s \in DOMAIN refs : smart_ref_move(d, s)
  \/ \E d \in DOMAIN refs, s \in DOMAIN refs : smart_ref_copy_assign(d, s)
  \/ \E d \in DOMAIN refs, s \in DOMAIN refs : smart_ref_move_assign(d, s)
  \/ \E r \in DOMAIN refs : smart_ref_drop(r)
  \/ \E e \in Entities, ts \in TypeLists, pol \in {"strict", "lax"} :
       remove_components_checked(e, ts, pol)
  \/ \E e \in Entities : remove_entity_checked(e)
SpecChecked == Init /\ [][NextChecked]_vars

\* ecs<A> whose entity counter has been driven to MaxEntity below the wrap of
\* uint32_t by earlier add_entity calls, every one of those entities destroyed
\* again; no component was ever added.  The client creates and destroys
\* entities and adds and removes components with the checked calls.
EntityIds == 0 .. (U32Mod - 1)
InitEntities ==
  /\ hdr \in Headers
  /\ Cs = <<"A">>
  /\ _entities = <<>>
  /\ _entity_counter = U32Mod - MaxEntity
  /\ _data = [c \in {"A"} |-> EmptyPool]
  /\ refs = <<>>
  /\ ret = Ret("init", "null", 0, "void", 0)
  /\ ub = FALSE
  /\ it = NoView
NextEntities ==
  \/ add_entity
  \/ \E e \in EntityIds : remove_entity_checked(e)
  \/ \E c \in Range(Cs), e \in Entities : add_component_checked(c, e, e + 1)
  \/ \E c \in Range(Cs), e \in Entities : remove_component_checked(c, e)
SpecEntities == InitEntities /\ [][NextEntities]_vars

\* ecs<A> built with either header, the client holding up to MaxRefs
\* smart_ref objects that it constructs, copies, moves and destroys; components are
\* added and removed with the checked calls.
NextMove ==
  \/ add_entity
  \/ \E c \in Range(Cs), e \in Entities : add_component_checked(c, e, e + 1)
  \/ \E c \in Range(Cs), e \in Entities : remove_component_checked(c, e)
  \/ \E r \in DOMAIN refs, c \in Range(Cs), e \in Entities : smart_ref_new(r, c, e)
  \/ \E d \in DOMAIN refs, s \in DOMAIN refs : smart_ref_copy(d, s)
  \/ \E d \in DOMAIN refs, s \in DOMAIN refs : smart_ref_move(d, s)
  \/ \E d \in DOMAIN refs, s \in DOMAIN refs : smart_ref_move_assign(d, s)
  \/ \E r \in DOMAIN refs : smart_ref_drop(r)
SpecMove == Init /\ [][NextMove]_vars

\* ecs<A> built with either header, the client adding and reading components
\* with the unchecked calls (as src/test.cpp does) and reading and writing
\* them through up to MaxRefs smart_ref objects.
Deltas == 1 .. MaxValue
NextWrite ==
  \/ \E c \in Range(Cs), e \in Entities : add_component_unchecked(c, e, e + 1)
  \/ \E c \in Range(Cs), e \in Entities : get_component_unchecked(c, e)
  \/ \E r \in DOMAIN refs, c \in Range(Cs), e \in Entities : smart_ref_new(r, c, e)
  \/ \E r \in DOMAIN refs, d \in Deltas : smart_ref_write(r, d)
  \/ \E r \in DOMAIN refs : smart_ref_read(r)
  \/ \E r \in DOMAIN refs : smart_ref_drop(r)
SpecWrite == Init /\ [][NextWrite]_vars

\* ecs<A, B> built with either header, the client holding up to StableRefs
\* smart_ref objects obtained from the checked stable get; components are
\* default-constructed and removed in bulk.
InitBulk == hdr \in Headers /\ InitWith(<<"A", "B">>, StableRefs)
NextBulk ==
  \/ add_entity
  \/ \E c \in Range(Cs), e \in Entities : add_component_checked(c, e, DefaultValue)
  \/ \E r \in DOMAIN refs, c \in Range(Cs), e \in Entities : get_stable_checked(r, c, e)
  \/ \E r \in DOMAIN refs : smart_ref_drop(r)
  \/ \E e \in Entities, ts \in TypeLists, pol \in {"strict", "lax"} :
       remove_components_checked(e, ts, pol)
  \/ \E e \in Entities : remove_entity_checked(e)
SpecBulk == InitBulk /\ [][NextBulk]_vars

\* ecs<A, B> built with src/ecs.h and traversed by views; components are
\* default-constructed, added and removed without checks, no smart_ref held.
NextIter ==
  \/ add_entity
  \/ \E c \in Range(Cs), e \in Entities : add_component_unchecked(c, e, DefaultValue)
  \/ \E c \in Range(Cs), e \in Entities : remove_component_unchecked(c, e)
  \/ \E ts \in TypeLists : view_traverse(ts)
SpecIter == InitView /\ [][NextIter]_vars

\* ecs<A> built with src/ecs.h whose pool has been through U32Mod - 1
\* unchecked inserts, each component removed again: the pool is empty, forward
\* has been resized over the entities and holds invalid_component_index, and
\* current_generation stands at the last value of its uint32_t.
InitGen ==
  /\ hdr = "h"
  /\ Cs = <<"A">>
  /\ _entities = <<>>
  /\ _entity_counter = 0
  /\ _data = [c \in {"A"} |->
                [EmptyPool EXCEPT !.forward = [i \in 1 .. MaxEntity |-> NONE],
                                  !.current_generation = U32Mod - 1]]
  /\ refs = <<>>
  /\ ret = Ret("init", "null", 0, "void", 0)
  /\ ub = FALSE
  /\ it = NoView
NextGen ==
  \/ add_entity
  \/ \E c \in Range(Cs), e \in Entities, v \in Values : add_component_checked(c, e, v)
  \/ \E c \in Range(Cs), e \in Entities, v \in Values : add_component_unchecked(c, e, v)
  \/ \E c \in Range(Cs), e \in Entities : remove_component_checked(c, e)
  \/ \E c \in Range(Cs), e \in Entities : remove_component_unchecked(c, e)
SpecGen == InitGen /\ [][NextGen]_vars

\* ------------------------------------------------------------------ claims
\* The slot of entity e in pool p, for an entity that holds a component.
SlotOf(p, e) == p.forward[e + 1]

\* The client's smart_ref objects bound to the component instance in dense
\* slot i of pool c: constructed on that instance (or copied or moved from an
\* object that was), naming its owner, and neither moved-from nor destroyed.
HandlesOn(c, i) ==
  {r \in DOMAIN refs :
     /\ refs[r].alive /\ refs[r].pool = c
     /\ refs[r].e = _data[c].back[i + 1]
     /\ refs[r].id = _data[c].ids[i + 1]}

\* The client's live smart_ref objects that name entity e in pool c at all,
\* whichever component instance they were constructed on.
HandlesNaming(c, e) ==
  {r \in DOMAIN refs : refs[r].alive /\ refs[r].pool = c /\ refs[r].e = e}

\* C1: for a live entity e holding a C component, a checked
\* remove_component<C>(e) returns component_has_references and leaves the
\* pools unchanged while a handle to that component is alive, and succeeds
\* once no handle naming e's C component is alive.
C1_ReferenceBlocksRemoval ==
  [][\A c \in Range(Cs), e \in Entities :
       (remove_component_checked(c, e) /\ Found(_entities, e) /\ Has(_data[c], e))
         => /\ HandlesOn(c, SlotOf(_data[c], e)) # {}
                 => ret'.res = "component_has_references" /\ _data' = _data
            /\ HandlesNaming(c, e) = {}
                 => ret'.res = "ok" /\ ~Has(_data'[c], e)]_vars

\* C2: a handle reports valid() only for the component instance it was
\* constructed on: not after that component was removed, and not after a new
\* component was added under the same entity.
C2_ValidOnlyForOwnInstance ==
  \A r \in DOMAIN refs :
    (refs[r].alive /\ valid(_data, refs[r]))
      => r \in HandlesOn(refs[r].pool, SlotOf(_data[refs[r].pool], refs[r].e))

\* An insert of a C component for entity e2, or a removal of the C component
\* that e2 holds.
MutationOf(c, e2) ==
  \/ \E v \in 0 .. MaxEntity : add_component_checked(c, e2, v)
  \/ \E v \in 0 .. MaxEntity : add_component_unchecked(c, e2, v)
  \/ Has(_data[c], e2) /\ remove_component_checked(c, e2)
  \/ remove_component_unchecked(c, e2)

\* C3: an insert or a removal of a component of another entity leaves a
\* valid handle to e's component valid and unchanged, and leaves the value
\* it reads, the refcount and the generation of e's component unchanged,
\* also when the removal moves e's component to another dense slot.
C3_HandleSurvivesOtherMutation ==
  [][\A r \in DOMAIN refs, e2 \in Entities :
       (/\ refs[r].alive /\ valid(_data, refs[r])
        /\ e2 # refs[r].e
        /\ MutationOf(refs[r].pool, e2))
         => /\ refs'[r] = refs[r]
            /\ valid(_data', refs[r])
            /\ LET p == _data[refs[r].pool]
                   q == _data'[refs[r].pool]
                   i == SlotOf(p, refs[r].e) + 1
                   j == SlotOf(q, refs[r].e) + 1
               IN /\ q.data[j] = p.data[i]
                  /\ q.refcounts[j] = p.refcounts[i]
                  /\ q.ids[j] = p.ids[i]
                  /\ hdr = "h" => q.generations[j] = p.generations[i]]_vars

\* C3 witness: built with src/ecs.h, a removal has just moved the component
\* a valid handle refers to from the last dense slot into slot 0.
C3_Witness ==
  /\ hdr = "h" /\ ~ub
  /\ ret.op \in {"remove_component_checked", "remove_component_unchecked"}
  /\ ret.res \in {"ok", "void"}
  /\ \E r \in DOMAIN refs :
       /\ refs[r].alive /\ valid(_data, refs[r])
       /\ SlotOf(_data[refs[r].pool], refs[r].e) = 0
       /\ _data[refs[r].pool].ids[1] = 1
       /\ _data[refs[r].pool].generations[1] = refs[r].generation
       /\ _data[refs[r].pool].refcounts[1] = 1
       /\ _data[refs[r].pool].data[1] = refs[r].e + 1

\* C4: for every pool and dense slot i, refcounts[i] is the number of live,
\* non-moved-from handles bound to the component instance in slot i.
C4_RefcountCountsHandles ==
  \A c \in Range(Cs) : \A i \in DenseIdx(_data[c]) :
    _data[c].refcounts[i + 1] = Cardinality(HandlesOn(c, i))

\* C5: forward[e] is the no-slot mark or a dense slot whose back entry is e,
\* and every dense slot i is the forward entry of back[i].
C5_SparseDenseConsistent ==
  \A c \in Range(Cs) :
    LET p == _data[c]
    IN /\ \A e \in 0 .. (Len(p.forward) - 1) :
            p.forward[e + 1] # NONE
              => /\ p.forward[e + 1] \in DenseIdx(p)
                 /\ p.back[p.forward[e + 1] + 1] = e
       /\ \A i \in DenseIdx(p) :
            /\ p.back[i + 1] < Len(p.forward)
            /\ p.forward[p.back[i + 1] + 1] = i

\* The dense arrays of pool p have one length (src/ecs.hpp has no
\* generations array).
SameLength(p) ==
  /\ Len(p.data) = Len(p.back)
  /\ Len(p.refcounts) = Len(p.back)
  /\ hdr = "h" => Len(p.generations) = Len(p.back)

\* C6: the dense arrays of a pool always have the same length; a successful
\* insert makes them one longer, a successful removal one shorter, and a
\* failed checked add, remove or get leaves all of them as they were.
C6_DenseArraysMoveTogether ==
  /\ [](\A c \in Range(Cs) : SameLength(_data[c]))
  /\ [][\A c \in Range(Cs), e \in Entities :
          LET n == Len(_data[c].back)
              m == Len(_data'[c].back)
          IN /\ (\E v \in 0 .. MaxEntity : add_component_checked(c, e, v))
                  => IF ret'.res = "ok" THEN m = n + 1 ELSE _data' = _data
             /\ (\E v \in 0 .. MaxEntity : add_component_unchecked(c, e, v))
                  => m = n + 1
             /\ remove_component_checked(c, e)
                  => IF ret'.res = "ok" THEN m = n - 1 ELSE _data' = _data
             /\ remove_component_unchecked(c, e) => m = n - 1
             /\ get_component_checked(c, e) => _data' = _data]_vars

\* C6 witness: built with src/ecs.h, a checked removal has just succeeded
\* and left one component in the pool.
C6_Witness ==
  /\ hdr = "h" /\ ~ub
  /\ ret.op = "remove_component_checked" /\ ret.res = "ok"
  /\ \E c \in Range(Cs) :
       /\ Len(_data[c].data) = 1 /\ Len(_data[c].generations) = 1
       /\ _data[c].inserts = 2

\* The partial map from entity to component value that pool p stands for.
AbsMap(p) ==
  [e \in Range(p.back) |-> p.data[CHOOSE i \in 1 .. Len(p.back) : p.back[i] = e]]

\* C7: on a live entity the checked add_component, remove_component and
\* get_component act on the pool as on a partial map from entity to value:
\* add inserts e when absent, remove deletes e when present and unreferenced,
\* get succeeds exactly on the domain and returns the value added for e;
\* no call changes the entry of another entity.
C7_PoolRefinesMap ==
  [][\A c \in Range(Cs), e \in Entities :
       Found(_entities, e) =>
         LET M == AbsMap(_data[c])
             N == AbsMap(_data'[c])
         IN /\ \A v \in Values :
                 add_component_checked(c, e, v)
                   => IF e \in DOMAIN M
                        THEN ret'.res = "component_already_exists" /\ N = M
                        ELSE /\ ret'.res = "ok"
                             /\ N = [x \in DOMAIN M \cup {e} |->
                                       IF x = e THEN v ELSE M[x]]
            /\ remove_component_checked(c, e)
                 => IF e \notin DOMAIN M
                      THEN ret'.res = "component_does_not_exist" /\ N = M
                    ELSE IF _data[c].refcounts[SlotOf(_data[c], e) + 1] # 0
                      THEN ret'.res = "component_has_references" /\ N = M
                    ELSE /\ ret'.res = "ok"
                         /\ N = [x \in DOMAIN M \ {e} |-> M[x]]
            /\ get_component_checked(c, e)
                 => /\ N = M
                    /\ IF e \in DOMAIN M
                         THEN ret'.res = "ok" /\ ret'.val = M[e]
                         ELSE ret'.res = "component_does_not_exist"]_vars

\* The entities that hold a component of every type of ts.
HoldsAll(ts) ==
  {e \in Entities : \A i \in 1 .. Len(ts) : Has(_data[ts[i]], e)}

\* C8: a traversal of a view from begin() to end() yields exactly the
\* entities that hold every type of the view, each once, and dereferences no
\* entity that some pool of the view does not hold.
C8_ViewYieldsMatches ==
  it.types # <<>>
    => /\ Range(it.out) = HoldsAll(it.types)
       /\ Len(it.out) = Cardinality(HoldsAll(it.types))
       /\ ~it.stray

\* C9: a checked remove_entity(e) on a live entity none of whose components
\* is referenced returns ok, and afterwards e is not in _entities and holds
\* no component of any type.
C9_DestroyRemovesComponents ==
  [][\A e \in Entities :
       (/\ remove_entity_checked(e)
        /\ e \in Range(_entities)
        /\ \A c \in Range(Cs) :
             Has(_data[c], e) => _data[c].refcounts[SlotOf(_data[c], e) + 1] = 0)
         => /\ ret'.res = "ok"
            /\ e \notin Range(_entities')
            /\ \A c \in Range(Cs) : ~Has(_data'[c], e)]_vars

\* C10: the checked add_component, remove_component, get_component,
\* remove_components and remove_entity on an entity that is not in _entities
\* return no_such_entity and change neither _entities nor any pool, whether
\* or not the entity holds components.
C10_UnknownEntityRejected ==
  [][\A e \in Entities :
       (/\ e \notin Range(_entities)
        /\ \/ \E c \in Range(Cs), v \in 0 .. MaxEntity : add_component_checked(c, e, v)
           \/ \E c \in Range(Cs) : remove_component_checked(c, e)
           \/ \E c \in Range(Cs) : get_component_checked(c, e)
           \/ \E ts \in TypeLists, pol \in {"strict", "lax"} :
                remove_components_checked(e, ts, pol)
           \/ remove_entity_checked(e))
         => /\ ret'.res = "no_such_entity"
            /\ _entities' = _entities
            /\ _data' = _data]_vars

\* C10 witness: no entity is live, every entity id holds a component that was
\* attached through the unchecked add, and a checked remove_entity has just
\* returned no_such_entity.
C10_Witness ==
  /\ ret.op = "remove_entity_checked" /\ ret.res = "no_such_entity"
  /\ _entities = <<>>
  /\ \E c \in Range(Cs) : \A e \in Entities : Has(_data[c], e)

\* C11: a checked add_component<C>(e, v) on a live entity that holds a C
\* component returns component_already_exists and changes nothing in the
\* pools (value, generation, refcount, current_generation, dense arrays and
\* forward) nor in any handle.
C11_SecondAddRejected ==
  [][\A c \in Range(Cs), e \in Entities :
       (/\ e \in Range(_entities)
        /\ Has(_data[c], e)
        /\ \E v \in 0 .. MaxEntity : add_component_checked(c, e, v))
         => /\ ret'.res = "component_already_exists"
            /\ _data' = _data
            /\ refs' = refs]_vars

\* C11 witness: built with src/ecs.h, a checked add has just been refused
\* for a component that a handle refers to.
C11_Witness ==
  /\ hdr = "h" /\ ~ub
  /\ ret.op = "add_component_checked" /\ ret.res = "component_already_exists"
  /\ \E r \in DOMAIN refs :
       /\ refs[r].alive /\ valid(_data, refs[r])
       /\ refs[r].e \in Range(_entities)
       /\ Len(_data[refs[r].pool].back) = 1
       /\ _data[refs[r].pool].refcounts[1] = 1

\* C12: a checked remove_component<C>(e) or a checked raw or stable
\* get_component<C>(e) on a live entity that holds no C component returns
\* component_does_not_exist, constructs no handle and changes no pool, also
\* when e is beyond every entity that was ever given a C component.
C12_AbsentComponentRejected ==
  [][\A c \in Range(Cs), e \in Entities :
       (/\ e \in Range(_entities)
        /\ ~Has(_data[c], e)
        /\ \/ remove_component_checked(c, e)
           \/ get_component_checked(c, e)
           \/ \E r \in DOMAIN refs : get_stable_checked(r, c, e))
         => /\ ret'.res = "component_does_not_exist"
            /\ _data' = _data
            /\ refs' = refs]_vars

\* C13: for every entity id that add_entity has issued, has_component<C>(e)
\* returns true exactly when e holds a C component (1 for true, 0 for false
\* in ret.val), and the call changes no state.
C13_HasComponentExact ==
  [][\A c \in Range(Cs), e \in Entities :
       (e < _entity_counter /\ ecs_has_component(c, e))
         => /\ ret'.val = (IF Has(_data[c], e) THEN 1 ELSE 0)
            /\ UNCHANGED <<_entities, _entity_counter, _data, refs>>]_vars

\* C14: add_entity returns the counter and leaves the counter greater than
\* the id it returned, so each id is greater than every id returned before
\* and is never returned again; the returned id is in _entities after the
\* call and is greater than every entity in it; _entities holds no entity
\* twice.
C14_IdsStrictlyIncrease ==
  /\ [](\A i, j \in 1 .. Len(_entities) : i # j => _entities[i] # _entities[j])
  /\ [][add_entity
          => /\ ret'.val = _entity_counter
             /\ _entity_counter' > ret'.val
             /\ ret'.val \in Range(_entities')
             /\ \A x \in Range(_entities) : x < ret'.val]_vars

\* C15: move-constructing d from a valid handle s changes no pool; d is
\* valid and refers to the same component (same pool, entity, generation
\* and instance), s is left alive and not valid.  Dropping a moved-from
\* handle changes no pool; dropping a valid handle takes exactly one from
\* the refcount of its component and changes nothing else.
C15_MoveTransfersReference ==
  [][/\ \A d, s \in DOMAIN refs :
          (valid(_data, refs[s]) /\ smart_ref_move(d, s))
            => /\ _data' = _data
               /\ refs'[d] = refs[s]
               /\ valid(_data', refs'[d])
               /\ refs'[s].alive /\ ~valid(_data', refs'[s])
     /\ \A r \in DOMAIN refs :
          smart_ref_drop(r)
            => IF refs[r] = MovedFrom
                 THEN _data' = _data
               ELSE valid(_data, refs[r])
                 => LET c == refs[r].pool
                        i == SlotOf(_data[c], refs[r].e) + 1
                    IN /\ _data[c].refcounts[i] >= 1
                       /\ _data' = [_data EXCEPT ![c].refcounts[i] = @ - 1]]_vars

\* C15 witness: built with src/ecs.h, a move construction has just left a
\* moved-from handle and a valid destination on a component whose refcount
\* is still 1.
C15_Witness ==
  /\ hdr = "h" /\ ~ub
  /\ ret.op = "smart_ref_move"
  /\ \E d, s \in DOMAIN refs :
       /\ refs[s] = MovedFrom
       /\ valid(_data, refs[d])
       /\ _data[refs[d].pool].refcounts[SlotOf(_data[refs[d].pool], refs[d].e) + 1] = 1
       /\ HandlesOn(refs[d].pool, SlotOf(_data[refs[d].pool], refs[d].e)) = {d}

\* C16: a handle and the unchecked raw get refer to one stored value.  With
\* M the map from owner to value held in the dense arrays: an unchecked add
\* for e enters e with the value added, a write of d through any valid
\* handle on e raises M[e] by d and leaves the rest of M alone, reads through
\* a handle and through the unchecked raw get both return M[e], and
\* constructing, reading and dropping handles leave M as it is.  So a get
\* after add(e, v) and a write of d returns v + d, through whichever handle
\* on e the write went.
C16_HandleAndRawGetAgree ==
  [][/\ ret'.op = "smart_ref_write"
          => \A r \in DOMAIN refs, d \in Deltas :
               smart_ref_write(r, d)
                 => LET M == AbsMap(_data[refs[r].pool])
                    IN /\ AbsMap(_data'[refs[r].pool])
                            = [M EXCEPT ![refs[r].e] = M[refs[r].e] + d]
                       /\ \A c \in Range(Cs) \ {refs[r].pool} : _data'[c] = _data[c]
     /\ ret'.op = "smart_ref_read"
          => \A r \in DOMAIN refs :
               smart_ref_read(r) => ret'.val = AbsMap(_data[refs[r].pool])[refs[r].e]
     /\ ret'.op = "get_component_unchecked"
          => \A c \in Range(Cs), e \in Entities :
               get_component_unchecked(c, e) => ret'.val = AbsMap(_data[c])[e]
     /\ ret'.op = "add_component_unchecked"
          => \A c \in Range(Cs), e \in Entities, v \in 0 .. MaxEntity :
               add_component_unchecked(c, e, v)
                 => AbsMap(_data'[c])
                      = [x \in DOMAIN AbsMap(_data[c]) \cup {e} |->
                           IF x = e THEN v ELSE AbsMap(_data[c])[x]]
     /\ ret'.op \in {"smart_ref_new", "smart_ref_read", "smart_ref_drop",
                     "get_component_unchecked"}
          => \A c \in Range(Cs) : AbsMap(_data'[c]) = AbsMap(_data[c])]_vars

\* C16 witness: two valid handles are bound to one component, its value is
\* above every value an add passes, so it was written through a handle, and
\* an unchecked raw get has just returned that value.
C16_Witness ==
  /\ ~ub
  /\ ret.op = "get_component_unchecked" /\ ret.val = MaxValue
  /\ \E c \in Range(Cs) : \E i \in DenseIdx(_data[c]) :
       /\ Cardinality(HandlesOn(c, i)) = 2
       /\ \A r \in HandlesOn(c, i) : valid(_data, refs[r])
       /\ _data[c].data[i + 1] = MaxValue

\* C17: the destructor of a handle whose component instance is gone (removed,
\* or removed and replaced by a new component of the same entity) or that was
\* moved from changes no pool; the destructor of a handle whose component is
\* still there takes exactly one from the refcount in the slot that holds it
\* and changes nothing else.
C17_DropOfStaleHandle ==
  [][\A r \in DOMAIN refs :
       smart_ref_drop(r)
         => LET c == refs[r].pool
                e == refs[r].e
            IN IF c # "null" /\ Has(_data[c], e)
                    /\ r \in HandlesOn(c, SlotOf(_data[c], e))
                 THEN /\ _data[c].refcounts[SlotOf(_data[c], e) + 1] >= 1
                      /\ _data' = [_data EXCEPT
                                     ![c].refcounts[SlotOf(_data[c], e) + 1] = @ - 1]
                 ELSE _data' = _data]_vars

\* C18: a removal of the component that entity e holds in dense slot i, with
\* last the last slot: when i # last the value, owner, generation and
\* refcount of the last slot move together into slot i and forward of the
\* moved owner becomes i; in every case forward[e] becomes the no-slot mark,
\* the dense arrays lose their last slot, and every other slot and every
\* other forward entry stay as they were, as does current_generation.
C18_SwapAndPop ==
  [][\A c \in Range(Cs), e \in Entities :
       (/\ Has(_data[c], e)
        /\ \/ remove_component_unchecked(c, e)
           \/ remove_component_checked(c, e) /\ ret'.res = "ok")
         => LET p == _data[c]
                q == _data'[c]
                i == SlotOf(p, e)
                last == Len(p.data) - 1
                moved == p.back[last + 1]
                Slot(x, j) == <<x.data[j + 1], x.back[j + 1], x.refcounts[j + 1],
                                x.ids[j + 1],
                                IF hdr = "h" THEN x.generations[j + 1] ELSE 0>>
            IN /\ Len(q.data) = last /\ Len(q.back) = last
               /\ Len(q.refcounts) = last
               /\ hdr = "h" => Len(q.generations) = last
               /\ i # last => Slot(q, i) = Slot(p, last) /\ q.forward[moved + 1] = i
               /\ \A j \in 0 .. (last - 1) : j # i => Slot(q, j) = Slot(p, j)
               /\ Len(q.forward) = Len(p.forward)
               /\ q.forward[e + 1] = NONE
               /\ \A x \in 0 .. (Len(p.forward) - 1) :
                    (x # e /\ x # moved) => q.forward[x + 1] = p.forward[x + 1]
               /\ q.current_generation = p.current_generation]_vars

\* C18 witness: built with src/ecs.h, an unchecked removal from slot 0 of a
\* pool of two has just moved the component inserted second, with its
\* refcount of 1 and its generation of 1, into slot 0.
C18_Witness ==
  /\ hdr = "h" /\ ~ub
  /\ ret.op = "remove_component_unchecked"
  /\ \E c \in Range(Cs) :
       /\ _data[c].inserts = 2 /\ Len(_data[c].back) = 1
       /\ _data[c].ids = <<1>> /\ _data[c].generations = <<1>>
       /\ _data[c].refcounts = <<1>>
       /\ _data[c].forward[_data[c].back[1] + 1] = 0
       /\ \E e \in Entities : e < Len(_data[c].forward) /\ _data[c].forward[e + 1] = NONE

\* Whether the bulk removal fails at type c for entity e: a component that
\* is referenced, or, under the strict policy, no component at all.
FailsAt(c, e, pol) ==
  IF Has(_data[c], e)
    THEN _data[c].refcounts[SlotOf(_data[c], e) + 1] # 0
    ELSE pol = "strict"

\* The position in ts of the first type the bulk removal fails at, or
\* Len(ts) + 1 when it fails at none.
FirstFail(e, ts, pol) ==
  LET F == {k \in 1 .. Len(ts) : FailsAt(ts[k], e, pol)}
  IN IF F = {} THEN Len(ts) + 1 ELSE CHOOSE k \in F : \A j \in F : k <= j

\* C19: a checked remove_components over the type list ts on a live entity
\* stops at the first type it fails at (component_does_not_exist for an
\* absent type under the strict policy, component_has_references for a
\* referenced component under either policy) and returns that error; the
\* components of the types before it are removed and stay removed, the pools
\* of that type, of the types after it and of the types not listed are
\* unchanged.
C19_BulkRemoveStopsAtFirstFailure ==
  [][\A e \in Entities, ts \in TypeLists, pol \in {"strict", "lax"} :
       (e \in Range(_entities) /\ remove_components_checked(e, ts, pol))
         => LET k == FirstFail(e, ts, pol)
            IN /\ ret'.res =
                    (IF k > Len(ts) THEN "ok"
                     ELSE IF Has(_data[ts[k]], e) THEN "component_has_references"
                     ELSE "component_does_not_exist")
               /\ \A j \in 1 .. Len(ts) :
                    _data'[ts[j]] =
                      (IF j < k /\ Has(_data[ts[j]], e)
                         THEN remove_element_fast(_data[ts[j]], e,
                                                  SlotOf(_data[ts[j]], e))
                         ELSE _data[ts[j]])
               /\ \A c \in Range(Cs) \ Range(ts) : _data'[c] = _data[c]]_vars

\* What pool p holds for each owner: value, refcount, instance, generation.
OwnerView(p) ==
  [x \in Range(p.back) |->
     LET i == CHOOSE j \in 1 .. Len(p.back) : p.back[j] = x
     IN <<p.data[i], p.refcounts[i], p.ids[i],
          IF hdr = "h" THEN p.generations[i] ELSE 0>>]

\* C20: a checked lax remove_components over the type list ts on a live
\* entity e none of whose listed components is referenced returns ok whether
\* or not e held each listed type; afterwards e holds none of the listed
\* types, the other entities hold in the listed pools what they held before,
\* and the pools of the types not listed are unchanged.
C20_LaxBulkRemove ==
  [][\A e \in Entities, ts \in TypeLists :
       (/\ e \in Range(_entities)
        /\ \A k \in 1 .. Len(ts) : ~FailsAt(ts[k], e, "lax")
        /\ remove_components_checked(e, ts, "lax"))
         => /\ ret'.res = "ok"
            /\ \A k \in 1 .. Len(ts) :
                 /\ ~Has(_data'[ts[k]], e)
                 /\ OwnerView(_data'[ts[k]])
                      = [x \in DOMAIN OwnerView(_data[ts[k]]) \ {e} |->
                           OwnerView(_data[ts[k]])[x]]
            /\ \A c \in Range(Cs) \ Range(ts) : _data'[c] = _data[c]]_vars

DrivingType(ts) ==
  LET n(i) == Len(_data[ts[i]].back)
  IN ts[CHOOSE i \in 1 .. Len(ts) :
          \A j \in 1 .. Len(ts) : n(i) < n(j) \/ (n(i) = n(j) /\ i <= j)]

\* The position of e in seq.
PosIn(seq, e) == CHOOSE i \in 1 .. Len(seq) : seq[i] = e

\* C22: a view iterates over the pool with the fewest entries among its
\* pools (the first listed on ties) and yields the entities that hold every
\* type of the view in the order in which they stand in that pool's back.
C22_ViewFollowsSmallestPool ==
  it.types # <<>>
    => LET drv == _data[DrivingType(it.types)].back
           Matches(e) == e \in HoldsAll(it.types)
       IN /\ _smallest_pool(_data, it.types) = DrivingType(it.types)
          /\ Range(it.out) \subseteq Range(drv)
          /\ \A i, j \in 1 .. Len(it.out) :
               i < j => PosIn(drv, it.out[i]) < PosIn(drv, it.out[j])
          /\ SelectSeq(it.out, Matches) = SelectSeq(drv, Matches)

\* C22 witness: a view of two types whose pools tie in size and differ in
\* order has yielded two entities, the larger id first.
C22_Witness ==
  /\ Len(it.types) = 2
  /\ it.out = <<1, 0>>
  /\ _data[it.types[2]].back = <<0, 1>>

\* C23: with no mutation during the traversal, the loop
\* for (it = begin(); it != end(); ++it) over a view terminates after at
\* most as many increments as the driving pool has entries, the iterator
\* index never exceeds that number, and a view whose smallest pool is empty
\* yields nothing.
C23_TraversalBounded ==
  /\ \A ts \in TypeLists :
       ~ub => view_loop(_data, ts, 0, <<>>, 0, FALSE) # {}
  /\ it.types # <<>>
       => LET n == Len(_data[DrivingType(it.types)].back)
          IN /\ it.incs <= n
             /\ it.index <= n
             /\ n = 0 => it.out = <<>>

\* C23 witness: a traversal of a view of two types has ended after two
\* increments.
C23_Witness == Len(it.types) = 2 /\ it.incs = 2 /\ it.index = 2

\* C24: in src/ecs.h every insert into a pool, checked or unchecked, assigns
\* a generation strictly greater than the generation of every component
\* inserted into that pool before it, however many inserts the uint32_t
\* counter has gone through: the generation assigned is above that of every
\* component in the pool and below the one the next insert will get; an
\* insert that fails assigns nothing.
C24_GenerationsIncrease ==
  [][\A c \in Range(Cs) :
       hdr = "h" =>
         LET p == _data[c]
             q == _data'[c]
         IN /\ Len(q.back) = Len(p.back) + 1
                 => /\ q.generations[Len(q.back)] = p.current_generation
                    /\ \A i \in 1 .. Len(p.back) :
                         p.generations[i] < q.generations[Len(q.back)]
                    /\ q.generations[Len(q.back)] < q.current_generation
            /\ Len(q.back) <= Len(p.back)
                 => q.current_generation = p.current_generation]_vars

\* C25: for a live entity e that holds no C component, the unchecked
\* add_component leaves the container (pools, _entities, _entity_counter) in
\* exactly the state the checked add_component leaves it in, and the checked
\* one returns ok; for a live entity e that holds a C component with
\* refcount 0 the same is true of the unchecked and the checked
\* remove_component.
C25_UncheckedMatchesChecked ==
  [][\A c \in Range(Cs), e \in Entities :
       e \in Range(_entities) =>
         LET p == _data[c]
         IN /\ ~Has(p, e) =>
                 \A v \in 0 .. MaxEntity :
                   LET chk == add_element(p, e, v)
                       fast == add_element_fast(p, e, v)
                   IN /\ chk.res = "ok" /\ chk.pool = fast
                      /\ add_component_checked(c, e, v)
                           => /\ ret'.res = "ok"
                              /\ _data' = [_data EXCEPT ![c] = fast]
                              /\ UNCHANGED <<_entities, _entity_counter>>
                      /\ add_component_unchecked(c, e, v)
                           => /\ _data' = [_data EXCEPT ![c] = chk.pool]
                              /\ UNCHANGED <<_entities, _entity_counter>>
            /\ (Has(p, e) /\ p.refcounts[SlotOf(p, e) + 1] = 0) =>
                 LET chk == remove_element(p, e, SlotOf(p, e))
                     fast == remove_element_fast(p, e, SlotOf(p, e))
                 IN /\ chk.res = "ok" /\ chk.pool = fast
                    /\ remove_component_checked(c, e)
                         => /\ ret'.res = "ok"
                            /\ _data' = [_data EXCEPT ![c] = fast]
                            /\ UNCHANGED <<_entities, _entity_counter>>
                    /\ remove_component_unchecked(c, e)
                         => /\ _data' = [_data EXCEPT ![c] = chk.pool]
                            /\ UNCHANGED <<_entities, _entity_counter>>]_vars

\* C25 witness: with every entity live, an unchecked remove_component has
\* taken one of two components out of the pool.
C25_Witness ==
  /\ Range(_entities) = Entities
  /\ ret.op = "remove_component_unchecked"
  /\ \E c \in Range(Cs) : Len(_data[c].back) = 1 /\ _data[c].inserts = 2

\* C26: copy-constructing or copy-assigning from a smart_ref whose valid()
\* is false (stale generation, component removed, or moved-from) increments
\* no refcount: the copy constructor leaves the pools as they were, the copy
\* assignment leaves them as the release of the assigned-to object leaves
\* them, and destroying the copy afterwards brings no further change.
C26_CopyOfInvalidCountsNothing ==
  [][\A d, s \in DOMAIN refs :
       (refs[s].alive /\ ~valid(_data, refs[s]))
         => /\ smart_ref_copy(d, s)
                 => /\ _data' = _data
                    /\ Release(_data', refs'[d]) = _data
            /\ (d # s /\ smart_ref_copy_assign(d, s))
                 => /\ _data' = Release(_data, refs[d])
                    /\ Release(_data', refs'[d]) = _data']_vars

\* C27: when the client calls only the checked container operations and the
\* smart_ref operations, every smart_ref that is alive and not moved-from is
\* valid() and is bound to the component instance its entity holds now: the
\* component it was constructed on has been neither removed nor replaced.
C27_HandlesStayValid ==
  \A r \in DOMAIN refs :
    (refs[r].alive /\ refs[r].pool # "null")
      => /\ valid(_data, refs[r])
         /\ r \in HandlesOn(refs[r].pool, SlotOf(_data[refs[r].pool], refs[r].e))
====
